---- MODULE Spec2Model ----
(***************************************************************************)
(* Mempool RBF tracker (main_Batch_WAL_new.py): the SQLite store, the      *)
(* replacement detector, the retention purge, the Poller, the BatchWorker  *)
(* and the shutdown path of main().                                        *)
(*                                                                         *)
(* A table is a bag of rows (a function row -> number of copies), since    *)
(* tx_inputs and tx_outputs carry no uniqueness constraint and SQLite      *)
(* treats NULLs of a PRIMARY KEY as distinct.  Timestamps are integers     *)
(* (days); datetime.isoformat() strings of one era compare in the order of *)
(* the instants they denote, and the code compares them only with <.       *)
(***************************************************************************)
EXTENDS Integers, Sequences, FiniteSets, TLC

\* ------------------------------------------------------------------ bounds
MaxOuts == 2
MaxRuns == 2
MaxIngest == 4
MaxClock == 8
MaxStoreClock == 15
MaxEmit == 3
MaxQueue == 2
MaxSnap == 2
\* BatchWorker(batch_size=...): the flush threshold, scaled down
BatchSize == 3

\* ------------------------------------------------------- program constants
HISTORY_DAYS == 7
\* 0xFFFFFFFE as two 16-bit halves <<high, low>>
RBF_SEQ_THRESHOLD == <<65535, 65534>>
SEQ_FINAL == <<65535, 65535>>
SEQ_RBF == <<65535, 65533>>

\* SQL NULL / Python None in a TEXT column, and in an INTEGER column
NULL == "NULL"
NULL_INT == -1

\* ------------------------------------------------------------ bag helpers
EmptyTable == << >>

Rows(t) == DOMAIN t

\* plain INSERT: one more copy of the row
Insert(t, r) ==
    IF r \in DOMAIN t THEN [t EXCEPT ![r] = @ + 1] ELSE t @@ (r :> 1)

\* DELETE: the rows of t outside keep go, with all their copies
KeepRows(t, keep) ==
    LET left == DOMAIN t \cap keep
    IN  IF left = {} THEN EmptyTable ELSE [r \in left |-> t[r]]

RECURSIVE SumCopies(_, _)
SumCopies(t, S) ==
    IF S = {} THEN 0
    ELSE LET r == CHOOSE x \in S : TRUE
         IN  t[r] + SumCopies(t, S \ {r})

\* ------------------------------------------------------------------ schema
\* A uniqueness conflict needs every key column equal and non-NULL.
TxConflict(a, b) == a.txid = b.txid

RbfConflict(a, b) == a.txid = b.txid

ReplacementsConflict(a, b) ==
    /\ a.orig_txid = b.orig_txid
    /\ a.new_txid = b.new_txid
    /\ a.change_address = b.change_address
    /\ a.change_address # NULL
    /\ a.change_vout_index = b.change_vout_index

ChangeInputsConflict(a, b) ==
    /\ a.orig_txid = b.orig_txid
    /\ a.new_txid = b.new_txid
    /\ a.change_address = b.change_address
    /\ a.change_address # NULL
    /\ a.input_address = b.input_address
    /\ a.input_address # NULL
    /\ a.change_vout_index = b.change_vout_index

\* faulty variant: INSERT OR REPLACE, the stored row gives way to the new one
InsertOrIgnoreTx_Replace(t, r) ==
    Insert(KeepRows(t, {x \in DOMAIN t : ~TxConflict(x, r)}), r)

\* INSERT OR IGNORE: the row is dropped when it conflicts with a stored row
InsertOrIgnoreTx(t, r) ==
    IF \E x \in DOMAIN t : TxConflict(x, r) THEN t ELSE Insert(t, r)

InsertOrIgnoreRbf(t, r) ==
    IF \E x \in DOMAIN t : RbfConflict(x, r) THEN t ELSE Insert(t, r)

InsertOrIgnoreReplacement(t, r) ==
    IF \E x \in DOMAIN t : ReplacementsConflict(x, r) THEN t ELSE Insert(t, r)

InsertOrIgnoreMapping(t, r) ==
    IF \E x \in DOMAIN t : ChangeInputsConflict(x, r) THEN t ELSE Insert(t, r)

init_db ==
    [tx |-> EmptyTable, tx_inputs |-> EmptyTable, tx_outputs |-> EmptyTable,
     rbf_txs |-> EmptyTable, replacements |-> EmptyTable,
     change_inputs |-> EmptyTable]

\* ------------------------------------------------------------------- purge
\* faulty variant: the mappings are purged by age like the events
purge_old_Mappings(db, now) ==
    LET ts == now - HISTORY_DAYS
        tx1 == KeepRows(db.tx, {r \in Rows(db.tx) : ~(r.fetched_at < ts)})
        live == {r.txid : r \in Rows(tx1)}
    IN  [db EXCEPT
            !.tx = tx1,
            !.tx_inputs = KeepRows(@, {r \in Rows(@) : ~(r.txid \notin live)}),
            !.tx_outputs = KeepRows(@, {r \in Rows(@) : ~(r.txid \notin live)}),
            !.rbf_txs = KeepRows(@, {r \in Rows(@) : ~(r.added_at < ts)}),
            !.replacements = KeepRows(@, {r \in Rows(@) : ~(r.detected_at < ts)}),
            !.change_inputs = KeepRows(@, {r \in Rows(@) : ~(r.detected_at < ts)})]

\* faulty variant: the orphaned outputs are left behind
purge_old_Orphans(db, now) ==
    LET ts == now - HISTORY_DAYS
        tx1 == KeepRows(db.tx, {r \in Rows(db.tx) : ~(r.fetched_at < ts)})
        live == {r.txid : r \in Rows(tx1)}
    IN  [db EXCEPT
            !.tx = tx1,
            !.tx_inputs = KeepRows(@, {r \in Rows(@) : ~(r.txid \notin live)}),
            !.rbf_txs = KeepRows(@, {r \in Rows(@) : ~(r.added_at < ts)}),
            !.replacements = KeepRows(@, {r \in Rows(@) : ~(r.detected_at < ts)})]

\* faulty variant: the inputs of the deleted transactions are left behind
purge_old_KeepInputs(db, now) ==
    LET ts == now - HISTORY_DAYS
        tx1 == KeepRows(db.tx, {r \in Rows(db.tx) : ~(r.fetched_at < ts)})
        live == {r.txid : r \in Rows(tx1)}
    IN  [db EXCEPT
            !.tx = tx1,
            !.tx_outputs = KeepRows(@, {r \in Rows(@) : ~(r.txid \notin live)}),
            !.rbf_txs = KeepRows(@, {r \in Rows(@) : ~(r.added_at < ts)}),
            !.replacements = KeepRows(@, {r \in Rows(@) : ~(r.detected_at < ts)})]

purge_old(db, now) ==
    LET ts == now - HISTORY_DAYS
        tx1 == KeepRows(db.tx, {r \in Rows(db.tx) : ~(r.fetched_at < ts)})
        live == {r.txid : r \in Rows(tx1)}
    IN  [db EXCEPT
            !.tx = tx1,
            !.tx_inputs = KeepRows(@, {r \in Rows(@) : ~(r.txid \notin live)}),
            !.tx_outputs = KeepRows(@, {r \in Rows(@) : ~(r.txid \notin live)}),
            !.rbf_txs = KeepRows(@, {r \in Rows(@) : ~(r.added_at < ts)}),
            !.replacements = KeepRows(@, {r \in Rows(@) : ~(r.detected_at < ts)})]

\* ---------------------------------------------------- replacement detector
\* {idx: (addr, val)} of the tx_outputs rows of one txid.  Rows of one
\* (txid, vout_index) are copies of each other (the outputs of a txid are
\* fixed by the txid), so the dict entry does not depend on the row order.
OutputsByIdx(db, txid) ==
    LET rows == {r \in Rows(db.tx_outputs) : r.txid = txid}
        keys == {r.vout_index : r \in rows}
    IN  [i \in keys |-> LET r == CHOOSE x \in rows : x.vout_index = i
                        IN  [addr |-> r.address, val |-> r.value]]

\* SELECT DISTINCT address FROM tx_inputs WHERE txid = ?
InputAddresses(db, txid) ==
    {r.address : r \in {x \in Rows(db.tx_inputs) : x.txid = txid}}

RECURSIVE InsertMappings(_, _, _)
InsertMappings(t, inputs, row) ==
    IF inputs = {} THEN t
    ELSE LET inp == CHOOSE x \in inputs : TRUE
         IN  InsertMappings(
                 InsertOrIgnoreMapping(t, [row EXCEPT !.input_address = inp]),
                 inputs \ {inp}, row)

\* faulty variant: only the indices of orig are looked up in new
SameIndexSet_Subset(orig_by_idx, new_by_idx) ==
    DOMAIN orig_by_idx \subseteq DOMAIN new_by_idx

\* set(orig_by_idx.keys()) == set(new_by_idx.keys())
SameIndexSet(orig_by_idx, new_by_idx) == DOMAIN orig_by_idx = DOMAIN new_by_idx

\* faulty variant: an absent address is not compared
SameAddresses_SkipNone(orig_by_idx, new_by_idx) ==
    \A i \in DOMAIN orig_by_idx :
        \/ orig_by_idx[i].addr = new_by_idx[i].addr
        \/ orig_by_idx[i].addr = NULL
        \/ new_by_idx[i].addr = NULL

\* no index where orig_addr != new_addr (None equals None)
SameAddresses(orig_by_idx, new_by_idx) ==
    \A i \in DOMAIN orig_by_idx : orig_by_idx[i].addr = new_by_idx[i].addr

\* the indices appended to diffs
Diffs(orig_by_idx, new_by_idx) ==
    {i \in DOMAIN orig_by_idx : orig_by_idx[i].val # new_by_idx[i].val}

\* faulty variant: any change is accepted, the first one taken
OneDiff_AtLeastOne(diffs) == Cardinality(diffs) >= 1

\* not (len(diffs) != 1)
OneDiff(diffs) == Cardinality(diffs) = 1

\* faulty variant: the direction of the change is not looked at
Shrinks_AnyChange(old_val, new_val) == new_val # old_val

\* faulty variant: the comparison is the other way round
Shrinks_Reversed(old_val, new_val) == ~(new_val <= old_val)

\* not (new_val >= old_val)
Shrinks(old_val, new_val) == ~(new_val >= old_val)

\* faulty variant: diff taken the other way round
ReplacementRow_NegDiff(orig_txid, new_txid, change_addr, change_idx, old_val, new_val, ts) ==
    [orig_txid |-> orig_txid, new_txid |-> new_txid,
     change_address |-> change_addr, change_vout_index |-> change_idx,
     old_value |-> old_val, new_value |-> new_val,
     diff |-> new_val - old_val, detected_at |-> ts]

ReplacementRow(orig_txid, new_txid, change_addr, change_idx, old_val, new_val, ts) ==
    [orig_txid |-> orig_txid, new_txid |-> new_txid,
     change_address |-> change_addr, change_vout_index |-> change_idx,
     old_value |-> old_val, new_value |-> new_val,
     diff |-> old_val - new_val, detected_at |-> ts]

MappingRow(orig_txid, new_txid, change_addr, change_idx, inp, ts) ==
    [orig_txid |-> orig_txid, new_txid |-> new_txid,
     change_address |-> change_addr, change_vout_index |-> change_idx,
     input_address |-> inp, detected_at |-> ts]

\* faulty variant: the mappings are written, the event is not
RecordEvent_NoEvent(db, orig_txid, new_txid, change_addr, change_idx, old_val, new_val, ts) ==
    [db EXCEPT
       !.change_inputs =
          InsertMappings(@, InputAddresses(db, orig_txid),
                         MappingRow(orig_txid, new_txid, change_addr,
                                    change_idx, NULL, ts))]

\* the two INSERT OR IGNORE statements of a successful detection
RecordEvent(db, orig_txid, new_txid, change_addr, change_idx, old_val, new_val, ts) ==
    [db EXCEPT
       !.replacements =
          InsertOrIgnoreReplacement(@,
              ReplacementRow(orig_txid, new_txid, change_addr, change_idx,
                             old_val, new_val, ts)),
       !.change_inputs =
          InsertMappings(@, InputAddresses(db, orig_txid),
                         MappingRow(orig_txid, new_txid, change_addr,
                                    change_idx, NULL, ts))]

record_replacement(orig_txid, new_txid, db, ts) ==
    LET orig_by_idx == OutputsByIdx(db, orig_txid)
        new_by_idx == OutputsByIdx(db, new_txid)
    IN  IF ~SameIndexSet(orig_by_idx, new_by_idx) THEN db
        ELSE IF ~SameAddresses(orig_by_idx, new_by_idx) THEN db
        ELSE LET diffs == Diffs(orig_by_idx, new_by_idx)
             IN  IF ~OneDiff(diffs) THEN db
                 ELSE LET change_idx == CHOOSE i \in diffs : TRUE
                          change_addr == orig_by_idx[change_idx].addr
                          old_val == orig_by_idx[change_idx].val
                          new_val == new_by_idx[change_idx].val
                      IN  IF ~Shrinks(old_val, new_val) THEN db
                          ELSE RecordEvent(db, orig_txid, new_txid, change_addr,
                                           change_idx, old_val, new_val, ts)

\* ------------------------------------------------------- the mempool API
\* GET /tx/{txid}: the transactions the API can serve.  t1 and t2 spend the
\* same outpoint and signal RBF; t2 is t1 with output 1 reduced by 20; t3
\* spends the same outpoint with final sequence numbers.  t4 spends that
\* outpoint with a sequence equal to the threshold (and a second outpoint
\* with a final one); t5 signals RBF and spends only the second outpoint.
\* TxIds are the txids the mempool snapshots list.
TxIds == {"t1", "t2", "t3"}

StoreTxIds == TxIds \cup {"t4", "t5"}

Vin(prev_txid, prev_vout, addr, val, seq) ==
    [txid |-> prev_txid, vout |-> prev_vout,
     prevout |-> [scriptpubkey_address |-> addr, value |-> val],
     sequence |-> seq]

Vout(addr, val) == [scriptpubkey_address |-> addr, value |-> val]

TxData ==
    [t \in StoreTxIds |->
       CASE t = "t1" ->
              [fee |-> 100, vsize |-> 140,
               vin |-> << Vin("p0", 0, "I1", 1600, SEQ_RBF) >>,
               vout |-> << Vout("A", 1000), Vout("B", 500) >>]
         [] t = "t2" ->
              [fee |-> 120, vsize |-> 140,
               vin |-> << Vin("p0", 0, "I1", 1600, SEQ_RBF) >>,
               vout |-> << Vout("A", 1000), Vout("B", 480) >>]
         [] t = "t3" ->
              [fee |-> 140, vsize |-> 140,
               vin |-> << Vin("p0", 0, "I1", 1600, SEQ_FINAL) >>,
               vout |-> << Vout("A", 1000), Vout("B", 460) >>]
         [] t = "t4" ->
              [fee |-> 80, vsize |-> 200,
               vin |-> << Vin("p0", 0, "I1", 1600, RBF_SEQ_THRESHOLD),
                          Vin("p1", 0, "I2", 700, SEQ_FINAL) >>,
               vout |-> << Vout("A", 1000), Vout("B", 520) >>]
         [] OTHER ->
              [fee |-> 110, vsize |-> 140,
               vin |-> << Vin("p1", 0, "I2", 1600, SEQ_RBF) >>,
               vout |-> << Vout("A", 1000), Vout("B", 490) >>]]

\* outcomes of one GET /tx/{txid}
FetchOutcomes == {"ok", "notfound", "http_error", "network_error", "bad_body"}

\* faulty variant: requests.HTTPError is not caught
fetch_tx_HttpRaises(txid, outcome) ==
    CASE outcome = "ok" -> [kind |-> "json", tx |-> TxData[txid]]
      [] outcome \in {"bad_body", "notfound", "http_error"} ->
            [kind |-> "raise", tx |-> NULL]
      [] OTHER -> [kind |-> "none", tx |-> NULL]

\* fetch_tx: the JSON object, None, or an exception that is not caught
\* (resp.json() is outside the try block)
fetch_tx(txid, outcome) ==
    CASE outcome = "ok" -> [kind |-> "json", tx |-> TxData[txid]]
      [] outcome = "bad_body" -> [kind |-> "raise", tx |-> NULL]
      [] OTHER -> [kind |-> "none", tx |-> NULL]

\* ------------------------------------------------------------- ingestion
SeqLess(a, b) == a[1] < b[1] \/ (a[1] = b[1] /\ a[2] < b[2])

RECURSIVE InsertInputs(_, _, _, _)
InsertInputs(t, txid, vin, i) ==
    IF i > Len(vin) THEN t
    ELSE InsertInputs(
             Insert(t, [txid |-> txid, prev_txid |-> vin[i].txid,
                        prev_vout |-> vin[i].vout,
                        address |-> vin[i].prevout.scriptpubkey_address,
                        value |-> vin[i].prevout.value,
                        sequence |-> vin[i].sequence]),
             txid, vin, i + 1)

\* enumerate() counts from 0
RECURSIVE InsertOutputs(_, _, _, _)
InsertOutputs(t, txid, vout, i) ==
    IF i > Len(vout) THEN t
    ELSE InsertOutputs(
             Insert(t, [txid |-> txid, vout_index |-> i - 1,
                        address |-> vout[i].scriptpubkey_address,
                        value |-> vout[i].value]),
             txid, vout, i + 1)

RECURSIVE RepeatDetect(_, _, _, _, _)
RepeatDetect(orig_txid, txid, db, ts, k) ==
    IF k = 0 THEN db
    ELSE RepeatDetect(orig_txid, txid,
                      record_replacement(orig_txid, txid, db, ts), ts, k - 1)

\* the rows of SELECT ti.txid FROM tx_inputs ti JOIN rbf_txs r ... for one
\* outpoint, each fetched row handed to the detector unless it is txid itself
RECURSIVE DetectRows(_, _, _, _)
DetectRows(S, txid, db, ts) ==
    IF S = {} THEN db
    ELSE LET r == CHOOSE x \in S : TRUE
         IN  DetectRows(S \ {r}, txid,
                        IF r.txid # txid
                        THEN RepeatDetect(r.txid, txid, db, ts, db.tx_inputs[r])
                        ELSE db,
                        ts)

\* faulty variant: the join with rbf_txs is left out
SpendersOf_NoJoin(db, prev_txid, prev_vout) ==
    {r \in Rows(db.tx_inputs) :
        /\ r.prev_txid = prev_txid
        /\ r.prev_vout = prev_vout}

SpendersOf(db, prev_txid, prev_vout) ==
    {r \in Rows(db.tx_inputs) :
        /\ r.prev_txid = prev_txid
        /\ r.prev_vout = prev_vout
        /\ \E c \in Rows(db.rbf_txs) : c.txid = r.txid}

\* the orig_txid the detection loop hands to record_replacement for txid
DetectorCalls(db, txid, vin) ==
    {r.txid : r \in UNION {SpendersOf(db, vin[i].txid, vin[i].vout) :
                               i \in 1..Len(vin)}} \ {txid}

RECURSIVE DetectInputs(_, _, _, _, _)
DetectInputs(vin, i, txid, db, ts) ==
    IF i > Len(vin) THEN db
    ELSE DetectInputs(vin, i + 1, txid,
                      DetectRows(SpendersOf(db, vin[i].txid, vin[i].vout),
                                 txid, db, ts),
                      ts)

\* faulty variant: a sequence equal to the threshold counts as signalling
IsRbf_Leq(vin) ==
    \E i \in 1..Len(vin) : ~SeqLess(RBF_SEQ_THRESHOLD, vin[i].sequence)

\* is_rbf: seq < RBF_SEQ_THRESHOLD for some input
IsRbf(vin) == \E i \in 1..Len(vin) : SeqLess(vin[i].sequence, RBF_SEQ_THRESHOLD)

\* the INSERTs of process_added_nocommit once the fetch returned a transaction
PersistTx(txid, tx, db, now) ==
    LET db1 == [db EXCEPT
                  !.tx = InsertOrIgnoreTx(@, [txid |-> txid, fetched_at |-> now,
                                              fee |-> tx.fee, vsize |-> tx.vsize]),
                  !.tx_inputs = InsertInputs(@, txid, tx.vin, 1),
                  !.tx_outputs = InsertOutputs(@, txid, tx.vout, 1)]
    IN  IF IsRbf(tx.vin)
        THEN [db1 EXCEPT !.rbf_txs =
                 InsertOrIgnoreRbf(@, [txid |-> txid, added_at |-> now])]
        ELSE db1

\* the INSERTs, then for an RBF transaction the search for replaced candidates
IngestTx(txid, tx, db, now) ==
    IF IsRbf(tx.vin)
    THEN DetectInputs(tx.vin, 1, txid, PersistTx(txid, tx, db, now), now)
    ELSE PersistTx(txid, tx, db, now)

\* [raised, db]: raised when the fetch threw
process_added_nocommit(txid, db, outcome, now) ==
    LET r == fetch_tx(txid, outcome)
    IN  CASE r.kind = "raise" -> [raised |-> TRUE, db |-> db]
          [] r.kind = "none" -> [raised |-> FALSE, db |-> db]
          [] OTHER -> [raised |-> FALSE, db |-> IngestTx(txid, r.tx, db, now)]

\* the loop of _flush_batch over self.buffer from position i; an exception
\* leaves the loop with the writes made so far pending
RECURSIVE FlushLoop(_, _, _, _, _)
FlushLoop(buf, i, db, outs, now) ==
    IF i > Len(buf) THEN [raised |-> FALSE, db |-> db]
    ELSE LET r == process_added_nocommit(buf[i], db, outs[i], now)
         IN  IF r.raised THEN r
             ELSE FlushLoop(buf, i + 1, r.db, outs, now)
\* ------------------------------------------------------------------ state
VARIABLES
    clock,      \* datetime.utcnow(), in days
    db,         \* the rows seen through conn (committed and pending writes)
    committed,  \* the rows committed to the database
    queue,      \* event_q
    buffer,     \* BatchWorker.buffer
    worker,     \* BatchWorker thread: "running", "exited" (conn closed), "crashed"
    poller,     \* Poller thread: "start", "loop", "dead"
    last_seen,  \* Poller.last
    main,       \* main(): "sleeping", "joining" (bw.join()), "exited"
    emitted,    \* number of added events put on the queue so far
    runs,       \* number of operations applied by the store-level specifications
    last        \* the last store operation: its name, arguments, time and the rows before it

vars == << clock, db, committed, queue, buffer, worker, poller, last_seen,
           main, emitted, runs, last >>

NoOp == [op |-> "init", args |-> << >>, ts |-> 0, pre |-> init_db]

Init ==
    /\ clock = 0
    /\ db = init_db
    /\ committed = init_db
    /\ queue = << >>
    /\ buffer = << >>
    /\ worker = "running"
    /\ poller = "start"
    /\ last_seen = {}
    /\ main = "sleeping"
    /\ emitted = 0
    /\ runs = 0
    /\ last = NoOp

\* ----------------------------------------------------------------- clock
\* the clock is sampled a retention window, or a day more, after the last sample
TickSteps == {HISTORY_DAYS, HISTORY_DAYS + 1}

Tick ==
    /\ main # "exited"
    /\ \E d \in TickSteps :
          /\ clock + d <= MaxClock
          /\ clock' = clock + d
    /\ UNCHANGED << db, committed, queue, buffer, worker, poller, last_seen,
                    main, emitted, runs, last >>

\* ---------------------------------------------------------------- Poller
RECURSIVE SeqsUpTo(_, _)
SeqsUpTo(S, n) ==
    IF n = 0 THEN {<< >>}
    ELSE LET shorter == SeqsUpTo(S, n - 1)
         IN  shorter \cup {Append(q, x) : q \in {y \in shorter : Len(y) = n - 1}, x \in S}

\* GET /mempool/txids: a list of txids
Snapshots == SeqsUpTo(TxIds, MaxSnap)

Range(q) == {q[i] : i \in 1..Len(q)}

RECURSIVE AddedEvents(_)
AddedEvents(txids) ==
    IF txids = << >> THEN << >>
    ELSE << << "added", Head(txids) >> >> \o AddedEvents(Tail(txids))

\* faulty variant: the snapshot is not compared with the baseline
NotIn_All(txids, S) == txids

\* [tx for tx in txids if tx not in self.last]
RECURSIVE NotIn(_, _)
NotIn(txids, S) ==
    IF txids = << >> THEN << >>
    ELSE (IF Head(txids) \in S THEN << >> ELSE << Head(txids) >>)
         \o NotIn(Tail(txids), S)

CanEmit(n) == emitted + n <= MaxEmit /\ Len(queue) + n <= MaxQueue

\* the initial snapshot of Poller.run, outside any try block
PollerFirst ==
    /\ main # "exited"
    /\ poller = "start"
    /\ \/ /\ poller' = "dead"
          /\ UNCHANGED << queue, last_seen, emitted >>
       \/ \E initial \in Snapshots :
             /\ CanEmit(Len(initial))
             /\ queue' = queue \o AddedEvents(initial)
             /\ emitted' = emitted + Len(initial)
             /\ last_seen' = Range(initial)
             /\ poller' = "loop"
    /\ UNCHANGED << clock, db, committed, buffer, worker, main, runs, last >>

\* one pass of the while loop of Poller.run; a failed fetch is caught
PollerCycle ==
    /\ main # "exited"
    /\ poller = "loop"
    /\ \/ UNCHANGED << queue, last_seen, emitted >>
       \/ \E txids \in Snapshots :
             LET new_txids == NotIn(txids, last_seen)
             IN  /\ CanEmit(Len(new_txids))
                 /\ queue' = queue \o AddedEvents(new_txids)
                 /\ emitted' = emitted + Len(new_txids)
                 /\ last_seen' = Range(txids)
    /\ UNCHANGED << clock, db, committed, buffer, worker, poller, main, runs, last >>

\* ------------------------------------------------------- purge_scheduler
\* faulty variant: the scheduler thread purges the store itself
purge_scheduler_Direct ==
    /\ main # "exited"
    /\ Len(queue) < MaxQueue
    /\ db' = purge_old(db, clock)
    /\ committed' = db'
    /\ UNCHANGED << clock, queue, buffer, worker, poller, last_seen,
                    main, emitted, runs, last >>

purge_scheduler ==
    /\ main # "exited"
    /\ Len(queue) < MaxQueue
    /\ queue' = Append(queue, << "purge", NULL >>)
    /\ UNCHANGED << clock, db, committed, buffer, worker, poller, last_seen,
                    main, emitted, runs, last >>

\* ------------------------------------------------------------------ main
\* KeyboardInterrupt: put the stop event, then bw.join()
MainInterrupt ==
    /\ main = "sleeping"
    /\ queue' = Append(queue, << "stop", NULL >>)
    /\ main' = "joining"
    /\ UNCHANGED << clock, db, committed, buffer, worker, poller, last_seen,
                    emitted, runs, last >>

MainJoin ==
    /\ main = "joining"
    /\ worker # "running"
    /\ main' = "exited"
    /\ UNCHANGED << clock, db, committed, queue, buffer, worker, poller,
                    last_seen, emitted, runs, last >>

\* ----------------------------------------------------------- BatchWorker
\* Outcomes that give the same kind of fetch_tx result for every txid (the
\* JSON of a txid is fixed) give the same step: one outcome of each such
\* class is enumerated.
SameResult(o1, o2) == \A t \in TxIds : fetch_tx(t, o1).kind = fetch_tx(t, o2).kind

OutcomeClasses ==
    {CHOOSE o \in FetchOutcomes : SameResult(o, x) : x \in FetchOutcomes}

\* one fetch outcome per buffered txid; the loop stops at the first exception,
\* so the fetches after it are not made (listed as "ok")
Outcomes(buf) ==
    {f \in [1..Len(buf) -> OutcomeClasses] :
        \A i \in 1..Len(buf), j \in 1..Len(buf) :
            (i < j /\ fetch_tx(buf[i], f[i]).kind = "raise") => f[j] = "ok"}

\* the finally block of BatchWorker.run: flush what is buffered, commit, close.
\* exc: an exception is propagating (the loop was left by one)
Finally(buf, cur, exc, op) ==
    IF buf = << >>
    THEN /\ db' = cur
         /\ committed' = cur
         /\ buffer' = buf
         /\ worker' = IF exc THEN "crashed" ELSE "exited"
         /\ last' = [op |-> op, args |-> buf, ts |-> clock, pre |-> db]
    ELSE \E outs \in Outcomes(buf) :
            LET r == FlushLoop(buf, 1, cur, outs, clock)
            IN  /\ db' = r.db
                /\ committed' = IF r.raised THEN committed ELSE r.db
                /\ buffer' = IF r.raised THEN buf ELSE << >>
                /\ worker' = IF r.raised \/ exc THEN "crashed" ELSE "exited"
                /\ last' = [op |-> op, args |-> buf, ts |-> clock, pre |-> db]

\* faulty variant: the flush starts one txid late
WorkerAdded_OffByOne ==
    /\ worker = "running"
    /\ queue # << >>
    /\ Head(queue)[1] = "added"
    /\ queue' = Tail(queue)
    /\ LET buf == Append(buffer, Head(queue)[2])
       IN  IF Len(buf) > BatchSize
           THEN \E outs \in Outcomes(buf) :
                   LET r == FlushLoop(buf, 1, db, outs, clock)
                   IN  IF r.raised
                       THEN Finally(buf, r.db, TRUE, "crash")
                       ELSE /\ db' = r.db
                            /\ committed' = r.db
                            /\ buffer' = << >>
                            /\ worker' = worker
                            /\ last' = [op |-> "flush", args |-> buf,
                                        ts |-> clock, pre |-> db]
           ELSE /\ buffer' = buf
                /\ UNCHANGED << db, committed, worker, last >>
    /\ UNCHANGED << clock, poller, last_seen, main, emitted, runs >>

\* evt == "added": append, and flush when the buffer is full
WorkerAdded ==
    /\ worker = "running"
    /\ queue # << >>
    /\ Head(queue)[1] = "added"
    /\ queue' = Tail(queue)
    /\ LET buf == Append(buffer, Head(queue)[2])
       IN  IF Len(buf) >= BatchSize
           THEN \E outs \in Outcomes(buf) :
                   LET r == FlushLoop(buf, 1, db, outs, clock)
                   IN  IF r.raised
                       THEN Finally(buf, r.db, TRUE, "crash")
                       ELSE /\ db' = r.db
                            /\ committed' = r.db
                            /\ buffer' = << >>
                            /\ worker' = worker
                            /\ last' = [op |-> "flush", args |-> buf,
                                        ts |-> clock, pre |-> db]
           ELSE /\ buffer' = buf
                /\ UNCHANGED << db, committed, worker, last >>
    /\ UNCHANGED << clock, poller, last_seen, main, emitted, runs >>

\* faulty variant: the pending txids are dropped when a purge is handled
WorkerPurge_DropsBuffer ==
    /\ worker = "running"
    /\ queue # << >>
    /\ Head(queue)[1] = "purge"
    /\ queue' = Tail(queue)
    /\ db' = purge_old(db, clock)
    /\ committed' = db'
    /\ buffer' = << >>
    /\ last' = [op |-> "purge", args |-> << >>, ts |-> clock, pre |-> db]
    /\ UNCHANGED << clock, worker, poller, last_seen, main, emitted, runs >>

\* evt == "purge"
WorkerPurge ==
    /\ worker = "running"
    /\ queue # << >>
    /\ Head(queue)[1] = "purge"
    /\ queue' = Tail(queue)
    /\ db' = purge_old(db, clock)
    /\ committed' = db'
    /\ last' = [op |-> "purge", args |-> << >>, ts |-> clock, pre |-> db]
    /\ UNCHANGED << clock, buffer, worker, poller, last_seen, main, emitted, runs >>

\* evt == "stop": leave the loop, then the finally block
WorkerStop ==
    /\ worker = "running"
    /\ queue # << >>
    /\ Head(queue)[1] = "stop"
    /\ queue' = Tail(queue)
    /\ Finally(buffer, db, FALSE, "stop")
    /\ UNCHANGED << clock, poller, last_seen, main, emitted, runs >>

Next ==
    \/ Tick
    \/ PollerFirst
    \/ PollerCycle
    \/ purge_scheduler
    \/ MainInterrupt
    \/ MainJoin
    \/ WorkerAdded
    \/ WorkerPurge
    \/ WorkerStop

Spec == Init /\ [][Next]_vars

\* ------------------------------------------- the detector on its own
\* The rows record_replacement reads, as process_added_nocommit leaves them
\* before its detection loop: an RBF transaction "o" persisted earlier and
\* an RBF transaction "n" spending the same outpoints, just inserted.  The
\* outputs of both and the input addresses are drawn from bounded sets.
DetAddrs == {"A", "B", NULL}
DetValues == {480, 500}
DetOutLists == SeqsUpTo({Vout(a, v) : a \in DetAddrs, v \in DetValues}, MaxOuts)
DetInLists ==
    { << Vin("p0", 0, "I1", 1600, SEQ_RBF) >>,
      << Vin("p0", 0, NULL, NULL_INT, SEQ_RBF) >>,
      << Vin("p0", 0, "I1", 1600, SEQ_RBF), Vin("p0", 1, NULL, NULL_INT, SEQ_RBF) >> }

InitDetector ==
    /\ clock = 0
    /\ \E vin \in DetInLists, vo \in DetOutLists, vn \in DetOutLists :
          db = PersistTx("n", [fee |-> 120, vsize |-> 140, vin |-> vin, vout |-> vn],
                   PersistTx("o", [fee |-> 100, vsize |-> 140, vin |-> vin, vout |-> vo],
                             init_db, 0),
                   0)
    /\ committed = init_db
    /\ queue = << >>
    /\ buffer = << "n" >>
    /\ worker = "running"
    /\ poller = "loop"
    /\ last_seen = {"o", "n"}
    /\ main = "sleeping"
    /\ emitted = 0
    /\ runs = 0
    /\ last = NoOp

\* record_replacement("o", "n", conn), now or a day later
RunDetector ==
    /\ runs < MaxRuns
    /\ runs' = runs + 1
    /\ \E ts \in {clock, clock + 1} :
          /\ clock' = ts
          /\ db' = record_replacement("o", "n", db, ts)
          /\ last' = [op |-> "rr", args |-> << "o", "n" >>, ts |-> ts, pre |-> db]
    /\ UNCHANGED << committed, queue, buffer, worker, poller, last_seen, main, emitted >>

NextDetector == RunDetector

SpecDetector == InitDetector /\ [][NextDetector]_vars
\* ------------------------------------------------- the store on its own
\* Ingestions (process_added_nocommit with a successful fetch) and purges
\* applied to the store at any sampled time, from the empty store.
StoreIngest ==
    /\ runs < MaxIngest
    /\ runs' = runs + 1
    /\ \E txid \in StoreTxIds :
          /\ db' = process_added_nocommit(txid, db, "ok", clock).db
          /\ last' = [op |-> "ingest", args |-> << txid >>, ts |-> clock, pre |-> db]
    /\ committed' = db'
    /\ UNCHANGED << clock, queue, buffer, worker, poller, last_seen, main, emitted >>

StorePurge ==
    /\ db' = purge_old(db, clock)
    /\ last' = [op |-> "purge", args |-> << >>, ts |-> clock, pre |-> db]
    /\ committed' = db'
    /\ UNCHANGED << clock, queue, buffer, worker, poller, last_seen, main,
                    emitted, runs >>

StoreTick ==
    /\ \E d \in TickSteps :
          /\ clock + d <= MaxStoreClock
          /\ clock' = clock + d
    /\ UNCHANGED << db, committed, queue, buffer, worker, poller, last_seen,
                    main, emitted, runs, last >>

NextStore == StoreIngest \/ StorePurge \/ StoreTick

SpecStore == Init /\ [][NextStore]_vars
\* ------------------------------------------- ingestion with failed fetches
\* the outcomes of GET /tx/{txid} after which fetch_tx returns None
FailedFetches == {"notfound", "http_error", "network_error"}

\* process_added_nocommit when the fetch fails
StoreSkip ==
    /\ \E txid \in StoreTxIds, outcome \in FailedFetches :
          /\ db' = process_added_nocommit(txid, db, outcome, clock).db
          /\ last' = [op |-> "skip", args |-> << txid >>, ts |-> clock, pre |-> db]
    /\ committed' = db'
    /\ UNCHANGED << clock, queue, buffer, worker, poller, last_seen, main,
                    emitted, runs >>

\* process_added_nocommit applied to the store with any fetch outcome but an
\* exception
NextSkip == StoreIngest \/ StoreSkip

SpecSkip == Init /\ [][NextSkip]_vars
\* ------------------------------------------- the Poller and its consumer
\* Poller.run feeding the queue and the BatchWorker taking the added events
\* off it, without clock, purge and shutdown.
NextPoller ==
    \/ PollerFirst
    \/ PollerCycle
    \/ WorkerAdded

SpecPoller == Init /\ [][NextPoller]_vars

\* ======================================================================
\* Properties
\* ======================================================================
\* What the properties read off a store d: the persisted outputs of a txid
\* and the rows recorded for a pair.
OutRows(d, t) == {r \in Rows(d.tx_outputs) : r.txid = t}

IdxSet(d, t) == {r.vout_index : r \in OutRows(d, t)}

AddrAt(d, t, i) == (CHOOSE r \in OutRows(d, t) : r.vout_index = i).address

ValAt(d, t, i) == (CHOOSE r \in OutRows(d, t) : r.vout_index = i).value

SameLayout(d, o, n) ==
    /\ IdxSet(d, o) = IdxSet(d, n)
    /\ \A i \in IdxSet(d, o) : AddrAt(d, o, i) = AddrAt(d, n, i)

ValueDiffs(d, o, n) ==
    {i \in IdxSet(d, o) \cap IdxSet(d, n) : ValAt(d, o, i) # ValAt(d, n, i)}

EventsOf(d, o, n) ==
    {r \in Rows(d.replacements) : r.orig_txid = o /\ r.new_txid = n}

MappingsOf(d, o, n) ==
    {r \in Rows(d.change_inputs) : r.orig_txid = o /\ r.new_txid = n}

\* the last step ran the detector on ("o", "n")
RanDetector == last.op = "rr" /\ last.args = << "o", "n" >>

\* the rows before that run and after it
Before == last.pre

\* C1: a run of the detector on a pair with equal index sets, equal
\* addresses, exactly one differing value and a smaller new value there, on a
\* store holding no event of the pair, leaves exactly one ReplacementEvent of
\* the pair: the differing index, its address, the two values, and
\* diff = old_value - new_value.
C1_ShrinkRecorded ==
    (/\ RanDetector
     /\ SameLayout(Before, "o", "n")
     /\ Cardinality(ValueDiffs(Before, "o", "n")) = 1
     /\ \A i \in ValueDiffs(Before, "o", "n") :
           ValAt(Before, "n", i) < ValAt(Before, "o", i)
     /\ EventsOf(Before, "o", "n") = {})
    => LET i == CHOOSE x \in ValueDiffs(Before, "o", "n") : TRUE
           e == [orig_txid |-> "o", new_txid |-> "n",
                 change_address |-> AddrAt(Before, "o", i),
                 change_vout_index |-> i,
                 old_value |-> ValAt(Before, "o", i),
                 new_value |-> ValAt(Before, "n", i),
                 diff |-> ValAt(Before, "o", i) - ValAt(Before, "n", i),
                 detected_at |-> last.ts]
       IN  /\ EventsOf(db, "o", "n") = {e}
           /\ db.replacements[e] = 1

\* orig [(0,A,500),(1,B,500)], new [(0,A,500),(1,B,480)]: B, index 1, 500 -> 480, diff 20
C1_Witness ==
    /\ RanDetector
    /\ EventsOf(Before, "o", "n") = {}
    /\ IdxSet(db, "o") = {0, 1}
    /\ AddrAt(db, "o", 0) = "A" /\ ValAt(db, "o", 0) = 500
    /\ AddrAt(db, "o", 1) = "B" /\ ValAt(db, "o", 1) = 500
    /\ IdxSet(db, "n") = {0, 1}
    /\ AddrAt(db, "n", 0) = "A" /\ ValAt(db, "n", 0) = 500
    /\ AddrAt(db, "n", 1) = "B" /\ ValAt(db, "n", 1) = 480
    /\ \E r \in EventsOf(db, "o", "n") :
          /\ r.change_address = "B" /\ r.change_vout_index = 1
          /\ r.old_value = 500 /\ r.new_value = 480 /\ r.diff = 20

\* C2: a run of the detector on a pair whose persisted outputs have
\* different sets of output indices leaves the store unchanged.
C2_IndexSetsDiffer ==
    (RanDetector /\ IdxSet(Before, "o") # IdxSet(Before, "n")) => db = Before

\* orig has one output, new has two, and index 0 alone would be a shrink
C2_Witness ==
    /\ RanDetector
    /\ IdxSet(db, "o") = {0} /\ IdxSet(db, "n") = {0, 1}
    /\ AddrAt(db, "o", 0) = AddrAt(db, "n", 0)
    /\ ValAt(db, "n", 0) < ValAt(db, "o", 0)
    /\ db.replacements = EmptyTable
    /\ db.change_inputs = EmptyTable

C4_NoShrink ==
    (/\ RanDetector
     /\ SameLayout(Before, "o", "n")
     /\ Cardinality(ValueDiffs(Before, "o", "n")) = 1
     /\ \A i \in ValueDiffs(Before, "o", "n") :
           ValAt(Before, "n", i) >= ValAt(Before, "o", i))
    => db = Before

\* 480 -> 500 at the one differing index
C4_Witness ==
    /\ RanDetector
    /\ SameLayout(db, "o", "n")
    /\ \E i \in IdxSet(db, "o") :
          /\ ValueDiffs(db, "o", "n") = {i}
          /\ ValAt(db, "o", i) = 480 /\ ValAt(db, "n", i) = 500
    /\ db.replacements = EmptyTable
    /\ db.change_inputs = EmptyTable

\* C5: recording is idempotent, NULL key fields included: no key of
\* replacements or of change_inputs is stored twice, and a second run of the
\* detector on the same pair leaves the rows of the first run as they are.
EventKey(r) ==
    << r.orig_txid, r.new_txid, r.change_address, r.change_vout_index >>

MappingKey(r) ==
    << r.orig_txid, r.new_txid, r.change_address, r.input_address,
       r.change_vout_index >>

C5_Idempotent ==
    /\ \A r \in Rows(db.replacements) :
          /\ db.replacements[r] = 1
          /\ \A q \in Rows(db.replacements) : EventKey(q) = EventKey(r) => q = r
    /\ \A r \in Rows(db.change_inputs) :
          /\ db.change_inputs[r] = 1
          /\ \A q \in Rows(db.change_inputs) : MappingKey(q) = MappingKey(r) => q = r
    /\ (RanDetector /\ runs >= 2) => db = Before
\* the last store operation was a purge; its cutoff
Purged == last.op = "purge"

Cutoff == last.ts - HISTORY_DAYS

\* every row of table t of store d is in table u with as many copies
KeptIn(t, S, u) == \A r \in S : r \in Rows(u) /\ u[r] = t[r]

\* C6: a purge leaves the change_inputs rows as they were, whatever their
\* detected_at and whatever the clock.
C6_PurgeKeepsMappings ==
    Purged => db.change_inputs = Before.change_inputs

\* a purge that met a mapping older than the window
C6_Witness ==
    /\ Purged
    /\ \E r \in Rows(Before.change_inputs) : r.detected_at < Cutoff
    /\ Before.replacements # EmptyTable
    /\ db.replacements = EmptyTable

\* C7: after a purge no tx row with fetched_at before the cutoff, no
\* rbf_txs row with added_at before it and no replacements row with
\* detected_at before it is left, no tx_inputs or tx_outputs row is left
\* without a tx row of its txid, and the rows not before the cutoff, and the
\* inputs and outputs whose tx row stays, are kept with all their copies.
C7_PurgeRemovesOld ==
    Purged =>
      LET live == {r.txid : r \in Rows(db.tx)}
      IN  /\ \A r \in Rows(db.tx) : ~(r.fetched_at < Cutoff)
          /\ \A r \in Rows(db.rbf_txs) : ~(r.added_at < Cutoff)
          /\ \A r \in Rows(db.replacements) : ~(r.detected_at < Cutoff)
          /\ \A r \in Rows(db.tx_inputs) : r.txid \in live
          /\ \A r \in Rows(db.tx_outputs) : r.txid \in live
          /\ KeptIn(Before.tx,
                    {r \in Rows(Before.tx) : r.fetched_at >= Cutoff}, db.tx)
          /\ KeptIn(Before.rbf_txs,
                    {r \in Rows(Before.rbf_txs) : r.added_at >= Cutoff}, db.rbf_txs)
          /\ KeptIn(Before.replacements,
                    {r \in Rows(Before.replacements) : r.detected_at >= Cutoff},
                    db.replacements)
          /\ KeptIn(Before.tx_inputs,
                    {r \in Rows(Before.tx_inputs) : r.txid \in live}, db.tx_inputs)
          /\ KeptIn(Before.tx_outputs,
                    {r \in Rows(Before.tx_outputs) : r.txid \in live}, db.tx_outputs)

\* a purge that met an old and a recent transaction: the old one went with
\* its inputs and outputs, the recent one stayed
C7_Witness ==
    /\ Purged
    /\ \E r \in Rows(Before.tx) :
          /\ r.fetched_at < Cutoff
          /\ \E x \in Rows(Before.tx_outputs) : x.txid = r.txid
          /\ \E x \in Rows(Before.tx_inputs) : x.txid = r.txid
    /\ \E r \in Rows(Before.replacements) : r.detected_at >= Cutoff
    /\ \E r \in Rows(db.tx) : \E x \in Rows(db.tx_outputs) : x.txid = r.txid
\* the replacements rows of store d with the key of mapping m, with copies
EventsWithKeyOf(d, m) ==
    SumCopies(d.replacements,
              {r \in Rows(d.replacements) :
                  EventKey(r) = << m.orig_txid, m.new_txid, m.change_address,
                                   m.change_vout_index >>})

\* C8 (as claimed): in every store state every change_inputs row has exactly
\* one replacements row with its (orig_txid, new_txid, change_address,
\* change_vout_index).
C8_ExactlyOneEvent ==
    \A m \in Rows(db.change_inputs) : EventsWithKeyOf(db, m) = 1

\* C8 (amended): a change_inputs row has a replacements row with its key
\* from the operation that writes it on; only a purge, which deletes events
\* by age and never mappings, leaves a mapping without an event.
C8_EventUntilPurged ==
    \A m \in Rows(db.change_inputs) :
        \/ EventsWithKeyOf(db, m) >= 1
        \/ /\ m \in Rows(Before.change_inputs)
           /\ Purged \/ EventsWithKeyOf(Before, m) = 0

\* a purge took the event of a mapping that had one
C8_Witness ==
    /\ Purged
    /\ \E m \in Rows(db.change_inputs) :
          /\ EventsWithKeyOf(Before, m) = 1
          /\ EventsWithKeyOf(db, m) = 0

\* C9: once the worker has handled the stop event and the process has
\* exited, no buffered work is dropped: every txid that was in the buffer at
\* the stop and that the flush on exit ingested (its fetch returned the
\* transaction and its rows were written) has a tx row in the committed store.
C9_StopKeepsBuffered ==
    (last.op = "stop" /\ main = "exited")
    => \A t \in Range(last.args) :
          (\E r \in Rows(db.tx) : r.txid = t)
          => (\E r \in Rows(committed.tx) : r.txid = t)

\* C10: the Poller thread never terminates on a failed snapshot fetch, the
\* first one included.
C10_PollerSurvives == poller # "dead"

\* C11: a failure on one txid of a flush stays with that txid: after a
\* flush at the batch threshold, whatever its fetches did, the worker is still
\* running (it goes on consuming events) and the writes of the flush are
\* committed.
C11_FailureIsolated ==
    (last.op \in {"flush", "crash"})
    => /\ worker = "running"
       /\ committed = db

\* the stores a complete run of _flush_batch over buf can commit from store d
CompleteFlushes(buf, d, now) ==
    {FlushLoop(buf, 1, d, outs, now).db :
        outs \in {o \in Outcomes(buf) : ~FlushLoop(buf, 1, d, o, now).raised}}

\* C12: a flush is committed as one unit: after a flush (at the threshold,
\* interrupted or not, or on exit) the committed store is the committed store
\* from before it, or that store with the writes of one complete run over the
\* buffer; the writes of an interrupted run are never committed.
C12_FlushAtomic ==
    (last.op \in {"flush", "crash", "stop"})
    => committed \in ({last.pre} \cup CompleteFlushes(last.args, last.pre, last.ts))

\* C14: (txid, vout_index) is unique among the tx_outputs rows of the store,
\* also when a txid is delivered more than once.
C14_OutputsUnique ==
    \A r \in Rows(db.tx_outputs) :
        /\ db.tx_outputs[r] = 1
        /\ \A q \in Rows(db.tx_outputs) :
              (q.txid = r.txid /\ q.vout_index = r.vout_index) => q = r

\* C15: once the threads run, the store is touched by the BatchWorker only:
\* every step that changes the rows seen through conn or the committed rows
\* is a step in which the running worker takes an event off the queue; the
\* Poller, the purge scheduler and main() only put events on the queue.
C15_SingleWriter ==
    [][(db' # db \/ committed' # committed)
       => (worker = "running" /\ queue # << >> /\ queue' = Tail(queue))]_vars

\* the worker has flushed while the Poller was polling and events were waiting
C15_Witness ==
    /\ last.op = "flush"
    /\ db # init_db
    /\ poller = "loop"
    /\ queue # << >>
    /\ main = "sleeping"

\* the transaction the API serves for t has an input with sequence < 0xFFFFFFFE
SignalsRbf(t) ==
    \E i \in 1..Len(TxData[t].vin) :
        SeqLess(TxData[t].vin[i].sequence, RBF_SEQ_THRESHOLD)

\* the last store operation was the ingestion of txid t
Ingested(t) == last.op = "ingest" /\ last.args = << t >>

\* C13: a persisted transaction has an rbf_txs row iff one of its inputs has
\* sequence < 0xFFFFFFFE; a transaction whose inputs all have a higher
\* sequence is never an RBF candidate and never the new side of a recorded
\* replacement or mapping, also when it spends an outpoint a persisted
\* candidate consumed.
C13_RbfMarking ==
    /\ \A r \in Rows(db.tx) :
          (\E c \in Rows(db.rbf_txs) : c.txid = r.txid) <=> SignalsRbf(r.txid)
    /\ \A c \in Rows(db.rbf_txs) : SignalsRbf(c.txid)
    /\ \A e \in Rows(db.replacements) : SignalsRbf(e.new_txid)
    /\ \A m \in Rows(db.change_inputs) : SignalsRbf(m.new_txid)

\* t3 (every sequence 0xFFFFFFFF, output 1 smaller than in t1) was ingested
\* on a store holding the candidate t1, which spends the same outpoint
C13_Witness ==
    /\ Ingested("t3")
    /\ \E c \in Rows(Before.rbf_txs) : c.txid = "t1"
    /\ \E i \in Rows(Before.tx_inputs), j \in Rows(db.tx_inputs) :
          /\ i.txid = "t1" /\ j.txid = "t3"
          /\ i.prev_txid = j.prev_txid /\ i.prev_vout = j.prev_vout
    /\ \E r \in Rows(db.tx) : r.txid = "t3"
    /\ \A c \in Rows(db.rbf_txs) : c.txid # "t3"
    /\ db.replacements = Before.replacements
    /\ db.change_inputs = Before.change_inputs

\* a and b both signal RBF and spend a common outpoint
Conflicting(a, b) ==
    /\ a # b
    /\ SignalsRbf(a) /\ SignalsRbf(b)
    /\ \E i \in 1..Len(TxData[a].vin), j \in 1..Len(TxData[b].vin) :
          /\ TxData[a].vin[i].txid = TxData[b].vin[j].txid
          /\ TxData[a].vin[i].vout = TxData[b].vin[j].vout

\* the store after a is processed, then b, on the empty store at time now
ProcessedInOrder(a, b, now) ==
    process_added_nocommit(
        b, process_added_nocommit(a, init_db, "ok", now).db, "ok", now).db

\* C16: detection does not depend on the processing order: when a and then
\* b, two conflicting RBF transactions, have been processed on the empty
\* store, the replacements and change_inputs rows are the ones that
\* processing b and then a leaves.
C16_OrderIndependent ==
    \A a \in StoreTxIds, b \in StoreTxIds :
        (/\ Conflicting(a, b)
         /\ Ingested(b)
         /\ Before = process_added_nocommit(a, init_db, "ok", last.ts).db)
        => /\ Rows(db.replacements)
                 = Rows(ProcessedInOrder(b, a, last.ts).replacements)
           /\ Rows(db.change_inputs)
                 = Rows(ProcessedInOrder(b, a, last.ts).change_inputs)

\* the txids of the events at positions from..Len(q) of queue q
IdsFrom(q, from) == {q[i][2] : i \in from..Len(q)}

\* the step is a successful Poller cycle that put events or moved the baseline
PollerStepped ==
    /\ poller' = "loop"
    /\ poller = "start" \/ last_seen' # last_seen \/ emitted' # emitted

\* C17: a successful Poller cycle appends only added events to the queue;
\* on the first cycle their ids are all the ids of the snapshot, on a later
\* cycle exactly the ids of the new snapshot that are not in the previous
\* baseline; the baseline becomes the snapshot.
C17_PollerDiff ==
    [][PollerStepped
       => /\ Len(queue') >= Len(queue)
          /\ SubSeq(queue', 1, Len(queue)) = queue
          /\ \A i \in (Len(queue) + 1)..Len(queue') : queue'[i][1] = "added"
          /\ (poller = "start")
                => IdsFrom(queue', Len(queue) + 1) = last_seen'
          /\ (poller = "loop")
                => IdsFrom(queue', Len(queue) + 1) = last_seen' \ last_seen
          /\ emitted' - emitted = Len(queue') - Len(queue)]_vars

\* three events were emitted in all, t1, t2, t3 in this order, and the
\* baseline is {t1, t3}: the last snapshot listed t1, which an earlier cycle
\* had emitted and which was in the baseline, and t1 was not emitted again
C17_Witness ==
    /\ poller = "loop"
    /\ emitted = 3
    /\ last_seen = {"t1", "t3"}
    /\ buffer = << "t1", "t2" >>
    /\ queue = << << "added", "t3" >> >>

\* the persisted RBF candidates other than t with an input on an outpoint
\* that an input of t consumes, read off the rows of store d
Eligible(d, t) ==
    {o \in StoreTxIds :
        /\ o # t
        /\ \E c \in Rows(d.rbf_txs) : c.txid = o
        /\ \E i \in Rows(d.tx_inputs), j \in Rows(d.tx_inputs) :
              /\ i.txid = o /\ j.txid = t
              /\ i.prev_txid = j.prev_txid /\ i.prev_vout = j.prev_vout}

\* the rows of table t that table u lacks or holds in fewer copies
Added(t, u) == {r \in Rows(t) : r \notin Rows(u) \/ u[r] < t[r]}

\* C18: the ingestion of an RBF transaction t hands to the detector exactly
\* the orig_txid that differ from t, are persisted RBF candidates and have an
\* input on an outpoint of t: the calls are that set, every row the ingestion
\* adds to replacements or change_inputs is for a pair (orig, t) with orig in
\* it, and for every orig in it the rows of (orig, t) are the ones the
\* detector records for that pair; the ingestion of a transaction that is
\* not RBF adds none.
C18_DetectorCalls ==
    \A t \in StoreTxIds :
        Ingested(t) =>
          LET d == PersistTx(t, TxData[t], Before, last.ts)
              calls == IF SignalsRbf(t)
                       THEN DetectorCalls(d, t, TxData[t].vin) ELSE {}
              elig == IF SignalsRbf(t) THEN Eligible(db, t) ELSE {}
          IN  /\ calls = elig
              /\ t \notin calls
              /\ \A r \in Added(db.replacements, Before.replacements) :
                    r.new_txid = t /\ r.orig_txid \in elig
              /\ \A r \in Added(db.change_inputs, Before.change_inputs) :
                    r.new_txid = t /\ r.orig_txid \in elig
              /\ \A o \in elig :
                    /\ EventsOf(db, o, t)
                          = EventsOf(record_replacement(o, t, d, last.ts), o, t)
                    /\ MappingsOf(db, o, t)
                          = MappingsOf(record_replacement(o, t, d, last.ts), o, t)

\* t2 was ingested on a store holding t1 (candidate on its outpoint), t4 (on
\* its outpoint, not a candidate, output 1 larger) and t5 (candidate on
\* another outpoint, output 1 larger): only (t1, t2) was recorded
C18_Witness ==
    /\ Ingested("t2")
    /\ \A o \in {"t1", "t4", "t5"} : \E r \in Rows(Before.tx) : r.txid = o
    /\ Eligible(db, "t2") = {"t1"}
    /\ EventsOf(Before, "t1", "t2") = {}
    /\ EventsOf(db, "t1", "t2") # {}
    /\ \A r \in Rows(db.replacements) : r.new_txid = "t2" => r.orig_txid = "t1"

\* C19: a run of the detector on a pair with equal index sets whose
\* addresses differ at some shared index (an absent address differs from a
\* present one) leaves the store unchanged, whatever the values are.
C19_AddressMismatch ==
    (/\ RanDetector
     /\ IdxSet(Before, "o") = IdxSet(Before, "n")
     /\ \E i \in IdxSet(Before, "o") : AddrAt(Before, "o", i) # AddrAt(Before, "n", i))
    => db = Before

\* the address at index 0 differs while index 1 alone would be a shrink
C19_Witness ==
    /\ RanDetector
    /\ IdxSet(db, "o") = {0, 1} /\ IdxSet(db, "n") = {0, 1}
    /\ AddrAt(db, "o", 0) # AddrAt(db, "n", 0)
    /\ ValAt(db, "o", 0) = ValAt(db, "n", 0)
    /\ AddrAt(db, "o", 1) = AddrAt(db, "n", 1)
    /\ ValAt(db, "n", 1) < ValAt(db, "o", 1)
    /\ db.replacements = EmptyTable
    /\ db.change_inputs = EmptyTable

\* the distinct input addresses of txid t in tx_inputs of store d
InputAddrsOf(d, t) == {r.address : r \in {x \in Rows(d.tx_inputs) : x.txid = t}}

\* the change_inputs rows of store d for event e
MappingsFor(d, e) ==
    {m \in Rows(d.change_inputs) :
        /\ m.orig_txid = e.orig_txid /\ m.new_txid = e.new_txid
        /\ m.change_address = e.change_address
        /\ m.change_vout_index = e.change_vout_index}

\* C20: after a detection for ("o", "n") the change_inputs rows for the pair
\* and the detected change address and index are exactly one row per
\* distinct input address of "o": the addresses of the rows are the input
\* addresses of "o" and each is stored once.
C20_OneMappingPerInput ==
    RanDetector =>
      \A e \in EventsOf(db, "o", "n") :
          /\ {m.input_address : m \in MappingsFor(db, e)} = InputAddrsOf(db, "o")
          /\ \A a \in InputAddrsOf(db, "o") :
                SumCopies(db.change_inputs,
                          {m \in MappingsFor(db, e) : m.input_address = a}) = 1

\* the last store operation was the processing of txid t with a failed fetch
Skipped(t) == last.op = "skip" /\ last.args = << t >>

\* C21: when the fetch of a txid ends in 404, an HTTP error or a network
\* error, its processing leaves every table as it was, and a flush holding
\* the txid goes on and leaves what the flush without it leaves: the txid is
\* neither written nor processed again by the worker.
C21_FailedFetchSkipped ==
    \A t \in StoreTxIds :
        Skipped(t) =>
          /\ db = Before
          /\ committed = Before
          /\ \A o \in FailedFetches, u \in StoreTxIds :
                LET with == FlushLoop(<< t, u >>, 1, Before, << o, "ok" >>, last.ts)
                    without == FlushLoop(<< u >>, 1, Before, << "ok" >>, last.ts)
                IN  ~with.raised /\ with.db = without.db

\* the fetch of t2 failed on a store holding t1, which t2 would have replaced
C21_Witness ==
    /\ Skipped("t2")
    /\ \E c \in Rows(db.rbf_txs) : c.txid = "t1"
    /\ \A r \in Rows(db.tx) : r.txid # "t2"
    /\ db = Before
    /\ db.replacements = EmptyTable

\* the step is the running worker taking a purge event off the queue
PurgeStep ==
    /\ worker = "running"
    /\ queue # << >>
    /\ Head(queue)[1] = "purge"
    /\ queue' = Tail(queue)

\* some row of store d is missing, or has fewer copies, in store e
RowsRemoved(d, e) ==
    \E f \in DOMAIN d : \E r \in Rows(d[f]) : r \notin Rows(e[f]) \/ e[f][r] < d[f][r]

\* C22: the purge is serialized with the writes: rows are deleted only in a
\* step of the running worker that takes a purge event off the queue; that
\* step writes no row of a flush (it adds none), commits, and leaves the
\* buffer of pending txids and the worker as they were.
C22_PurgeSerialized ==
    [][/\ RowsRemoved(db, db') => PurgeStep
       /\ PurgeStep => /\ buffer' = buffer
                       /\ worker' = worker
                       /\ ~RowsRemoved(db', db)
                       /\ committed' = db']_vars

\* the worker handled a purge event that deleted the rows of an earlier
\* flush, and is still running
C22_Witness ==
    /\ Purged
    /\ RowsRemoved(Before, db)
    /\ worker = "running"
    /\ poller = "loop"

\* the step is the running worker taking an added event off the queue
AddedStep ==
    /\ worker = "running"
    /\ queue # << >>
    /\ Head(queue)[1] = "added"
    /\ queue' = Tail(queue)

C24_ShutdownCompletes ==
    (main = "exited")
    => /\ worker = "exited"
       /\ \A i \in 1..Len(queue) : queue[i][1] # "stop"
       /\ buffer = << >>
       /\ committed = db

\* the tx rows of txid t in store d
TxRowsOf(d, t) == {r \in Rows(d.tx) : r.txid = t}

\* C25: a tx row is created once per txid and never updated: a txid has at
\* most one tx row, stored once; an operation other than a purge leaves every
\* tx row as it was (the ingestion of a txid that has a row keeps its
\* fetched_at, fee and vsize), and a purge only deletes rows.
C25_TxRowFrozen ==
    /\ \A t \in StoreTxIds :
          /\ Cardinality(TxRowsOf(db, t)) <= 1
          /\ \A r \in TxRowsOf(db, t) : db.tx[r] = 1
    /\ ~Purged => \A r \in Rows(Before.tx) : r \in Rows(db.tx)
    /\ Purged => Rows(db.tx) \subseteq Rows(Before.tx)
    /\ \A t \in StoreTxIds :
          (Ingested(t) /\ TxRowsOf(Before, t) # {})
          => TxRowsOf(db, t) = TxRowsOf(Before, t)

\* t1 was ingested again a window or more after its tx row was written: the
\* row kept its fetched_at while the inputs were written anew
C25_Witness ==
    /\ Ingested("t1")
    /\ \E r \in TxRowsOf(db, "t1") : r.fetched_at < last.ts
    /\ TxRowsOf(db, "t1") = TxRowsOf(Before, "t1")
    /\ db.tx_inputs # Before.tx_inputs

\* C26: every ReplacementEvent row of the store pairs two different
\* transactions, has a new value below the old one, and a positive diff equal
\* to old_value - new_value.
C26_EventShape ==
    \A e \in Rows(db.replacements) :
        /\ e.orig_txid # e.new_txid
        /\ e.new_value < e.old_value
        /\ e.diff = e.old_value - e.new_value
        /\ e.diff > 0

\* the ingestion of t2 has just written the event of the pair (t1, t2),
\* 500 -> 480 at index 1; t2 spends the same outpoint as itself and as t1
C26_Witness ==
    /\ Ingested("t2")
    /\ \E e \in Rows(db.replacements) :
          /\ e \notin Rows(Before.replacements)
          /\ e.orig_txid = "t1" /\ e.new_txid = "t2"
          /\ e.old_value = 500 /\ e.new_value = 480 /\ e.diff = 20
    /\ \E r \in Rows(db.tx_inputs) : r.txid = "t2"

\* the number of tx_inputs rows of txid t in store d, copies counted
InputCopies(d, t) ==
    SumCopies(d.tx_inputs, {r \in Rows(d.tx_inputs) : r.txid = t})

\* the number of added events of txid t in the buffer buf
Occurrences(buf, t) == Cardinality({i \in 1..Len(buf) : buf[i] = t})

\* C27: an added event leads to at most one processing of its txid: a worker
\* step that flushes the buffer, the exit flush and a flush failing part-way
\* included, writes the inputs of a txid at most once per added event of that
\* txid in the buffer.
C27_ProcessedOnce ==
    (last.op \in {"flush", "crash", "stop"})
    => \A t \in TxIds :
          InputCopies(db, t) - InputCopies(Before, t)
             <= Occurrences(last.args, t) * Len(TxData[t].vin)

\* the txids that have a tx row in store d
StoredTxIds(d) == {r.txid : r \in Rows(d.tx)}

\* C28: in every committed state of the store each TxInput row and each
\* TxOutput row belongs to a stored transaction: a tx row with its txid exists.
C28_NoOrphanRows ==
    /\ \A r \in Rows(committed.tx_inputs) : r.txid \in StoredTxIds(committed)
    /\ \A r \in Rows(committed.tx_outputs) : r.txid \in StoredTxIds(committed)

\* a purge has deleted a transaction that was ingested more than once (its
\* input row was stored twice) together with its inputs and outputs, while a
\* younger transaction keeps its rows
C28_Witness ==
    /\ Purged
    /\ committed = db
    /\ \E t \in StoredTxIds(Before) \ StoredTxIds(committed) :
          /\ InputCopies(Before, t) >= 2
          /\ InputCopies(committed, t) = 0
          /\ \E r \in Rows(Before.tx_outputs) : r.txid = t
    /\ \E u \in StoredTxIds(committed) : InputCopies(committed, u) >= 1
====
